---- MODULE Spec2Model ----
(***************************************************************************)
(* Model of the option_like! macro (src/src/lib.rs): the items one         *)
(* expansion emits into a module, and the operations of the generated      *)
(* enum $name<T> { $some(T), $none } on values of a small payload type.    *)
(* Text (panic messages) is a sequence of pieces.                          *)
(***************************************************************************)
EXTENDS Integers, Sequences, FiniteSets, TLC

VARIABLES scope, ty, op, inp, arg, out, calls

vars == <<scope, ty, op, inp, arg, out, calls>>

\* ---------------------------------------------------------------- bounds
MaxPayload == 2
MaxExpansions == 2

\* ------------------------------------------------------- payload type T
T == 0 .. MaxPayload

T_default == 0

\* caller-supplied closures FnOnce(T) -> U, by name
Fs == {"not", "inc", "zero"}

Apply(f, v) ==
  CASE f = "not" -> MaxPayload - v
    [] f = "inc" -> (v + 1) % (MaxPayload + 1)
    [] f = "zero" -> 0

\* caller-supplied messages for expect
Msgs == {<<"should panic">>, <<"should not panic">>, <<"{}">>, <<>>}

\* ------------------------------------------------------ macro invocations
Specs ==
  << [name |-> "Cached", some |-> "Hit", none |-> "Miss",
      is_some |-> "is_hit", is_none |-> "is_miss", derives |-> {"Ord", "PartialOrd", "Eq", "PartialEq", "Default", "Clone", "Debug"}],
     [name |-> "Found", some |-> "Present", none |-> "Absent",
      is_some |-> "is_present", is_none |-> "is_absent", derives |-> {"Debug", "PartialEq"}],
     [name |-> "Loaded", some |-> "Ready", none |-> "Pending",
      is_some |-> "is_ready", is_none |-> "is_pending", derives |-> {"Clone"}],
     [name |-> "Slot", some |-> "Full", none |-> "Empty",
      is_some |-> "is_full", is_none |-> "is_empty", derives |-> {}] >>

Cached == Specs[1]

Modules == {"tests", "other"}

\* items one expansion of option_like! puts into the enclosing module
option_like(s) ==
  << [ns |-> "type",  name |-> s.name,          by |-> s.name],
     [ns |-> "glob",  name |-> s.some,          by |-> s.name],
     [ns |-> "glob",  name |-> s.none,          by |-> s.name],
     [ns |-> "value", name |-> "unwrap_failed", by |-> s.name],
     [ns |-> "value", name |-> "expect_failed", by |-> s.name] >>

\* rustc rejects a module that defines one name twice in one namespace
\* (glob imports are shadowable and never clash with a definition)
Compiles(items) ==
  \A i, j \in 1 .. Len(items) :
     (i # j /\ items[i].ns # "glob" /\ items[i].ns = items[j].ns)
        => items[i].name # items[j].name

Expanded == {s \in {Specs[k] : k \in 1 .. Len(Specs)} :
               \E m \in Modules : \E i \in 1 .. Len(scope[m]) : scope[m][i].by = s.name}

NumExpanded == Cardinality(Expanded)

\* ------------------------------------------------------------- values
some(v) == [variant |-> "some", val |-> v]
none == [variant |-> "none"]
Values == {some(v) : v \in T} \cup {none}

Some(v) == [variant |-> "Some", val |-> v]
None == [variant |-> "None"]
Options == {Some(v) : v \in T} \cup {None}

Ret(v) == [kind |-> "return", val |-> v]
Panic(m) == [kind |-> "panic", msg |-> m]
NoArg == [kind |-> "none"]

\* --------------------------------------------------------------- text
Lit(t) == [kind |-> "lit", text |-> t]
Ident(t) == [kind |-> "ident", text |-> t]
Comma == [kind |-> "punct", text |-> ","]

Render(tok) ==
  IF tok.kind = "lit" THEN <<"\"", tok.text, "\"">> ELSE <<tok.text>>

RECURSIVE stringify(_)
stringify(toks) ==
  IF toks = <<>> THEN <<>>
  ELSE LET rest == Tail(toks)
       IN Render(Head(toks))
            \o (IF rest # <<>> /\ Head(rest).kind # "punct" THEN <<" ">> ELSE <<>>)
            \o stringify(rest)

\* format_args!: every "{}" piece is replaced by the next argument's text
RECURSIVE Format(_, _)
Format(fmt, args) ==
  IF fmt = <<>> THEN <<>>
  ELSE IF Head(fmt) = "{}" /\ args # <<>>
       THEN Head(args) \o Format(Tail(fmt), Tail(args))
       ELSE <<Head(fmt)>> \o Format(Tail(fmt), args)

\* slip: the message of core's Option copied unchanged
unwrap_failed_generic(s) ==
  Panic(Format(<<"called 'Option::unwrap()' on a 'None' value">>, <<>>))

\* (the backquote of the source text is written ' here)
unwrap_failed(s) ==
  Panic(Format(stringify(<<Lit("called '"), Comma, Ident(s.name), Comma,
                           Lit("::unwrap()' on a '"), Comma, Ident(s.none), Comma,
                           Lit("' value")>>), <<>>))

\* slip: a prefix added to the caller's message
expect_failed_prefixed(msg) == Panic(Format(<<"expect failed: ", "{}">>, <<msg>>))

expect_failed(msg) == Panic(Format(<<"{}">>, <<msg>>))

\* ------------------------------------------------- generated operations
is_some(x) == IF x.variant = "some" THEN Ret(TRUE) ELSE Ret(FALSE)

\* slip: the arms of is_some copied unchanged
is_none_copied(x) == IF x.variant = "some" THEN Ret(TRUE) ELSE Ret(FALSE)

is_none(x) == IF x.variant = "some" THEN Ret(FALSE) ELSE Ret(TRUE)

\* slip: the payload passed through without calling f
map_identity(x, f) ==
  IF x.variant = "some"
  THEN [out |-> Ret(some(x.val)), calls |-> 0]
  ELSE [out |-> Ret(none), calls |-> 0]

map(x, f) ==
  IF x.variant = "some"
  THEN [out |-> Ret(some(Apply(f, x.val))), calls |-> 1]
  ELSE [out |-> Ret(none), calls |-> 0]

unwrap(s, x) == IF x.variant = "some" THEN Ret(x.val) ELSE unwrap_failed(s)

\* slip: the payload dropped
unwrap_or_default_always(x) == Ret(T_default)

\* slip: the absent arm written as in unwrap
unwrap_or_default_strict(x) ==
  IF x.variant = "some" THEN Ret(x.val) ELSE unwrap_failed(Cached)

unwrap_or_default(x) == IF x.variant = "some" THEN Ret(x.val) ELSE Ret(T_default)

\* slip: f evaluated before the match (as unwrap_or(f()) would)
unwrap_or_else_eager(x, w) ==
  IF x.variant = "some"
  THEN [out |-> Ret(x.val), calls |-> 1]
  ELSE [out |-> Ret(w), calls |-> 1]

unwrap_or_else(x, w) ==
  IF x.variant = "some"
  THEN [out |-> Ret(x.val), calls |-> 0]
  ELSE [out |-> Ret(w), calls |-> 1]

expect(x, msg) == IF x.variant = "some" THEN Ret(x.val) ELSE expect_failed(msg)

\* slip: the payload replaced by the absent variant
from_option_lossy(o) == Ret(none)

from_option(o) == IF o.variant = "Some" THEN Ret(some(o.val)) ELSE Ret(none)

into_option(x) == IF x.variant = "some" THEN Ret(Some(x.val)) ELSE Ret(None)

\* #[derive(Ord)]: declaration order of the variants first, then the payload
discriminant(x) == IF x.variant = "some" THEN 0 ELSE 1

Ord(a, b) == IF a < b THEN "Less" ELSE IF a > b THEN "Greater" ELSE "Equal"

cmp(a, b) ==
  IF discriminant(a) # discriminant(b)
  THEN Ret(Ord(discriminant(a), discriminant(b)))
  ELSE IF a.variant = "some" THEN Ret(Ord(a.val, b.val)) ELSE Ret("Equal")

\* ------------------------------------------------------------ the machine
Init ==
  /\ scope = [m \in Modules |-> IF m = "tests" THEN option_like(Cached) ELSE <<>>]
  /\ ty = Cached
  /\ op = "none"
  /\ inp = none
  /\ arg = NoArg
  /\ out = Ret(none)
  /\ calls = 0

\* build time: one more invocation of the macro, in some module
Expand ==
  /\ op = "none"
  /\ NumExpanded < MaxExpansions
  /\ NumExpanded < Len(Specs)
  /\ \E m \in Modules :
       scope' = [scope EXCEPT ![m] = @ \o option_like(Specs[NumExpanded + 1])]
  /\ UNCHANGED <<ty, op, inp, arg, out, calls>>

\* run time exists only for a crate that compiles, and ends at a panic
Running == (\A m \in Modules : Compiles(scope[m])) /\ out.kind # "panic"

Call(s, o, x, a, r, n) ==
  /\ Running
  /\ s \in Expanded
  /\ ty' = s /\ op' = o /\ inp' = x /\ arg' = a /\ out' = r /\ calls' = n
  /\ UNCHANGED scope

IsSome == \E s \in Expanded, x \in Values : Call(s, "is_some", x, NoArg, is_some(x), 0)

IsNone == \E s \in Expanded, x \in Values : Call(s, "is_none", x, NoArg, is_none(x), 0)

Map ==
  \E s \in Expanded, x \in Values, f \in Fs :
     Call(s, "map", x, [kind |-> "fn", f |-> f], map(x, f).out, map(x, f).calls)

Unwrap == \E s \in Expanded, x \in Values : Call(s, "unwrap", x, NoArg, unwrap(s, x), 0)

UnwrapOrDefault ==
  \E s \in Expanded, x \in Values :
     Call(s, "unwrap_or_default", x, NoArg, unwrap_or_default(x), 0)

UnwrapOrElse ==
  \E s \in Expanded, x \in Values, w \in T :
     Call(s, "unwrap_or_else", x, [kind |-> "thunk", w |-> w],
          unwrap_or_else(x, w).out, unwrap_or_else(x, w).calls)

Expect ==
  \E s \in Expanded, x \in Values, msg \in Msgs :
     Call(s, "expect", x, [kind |-> "msg", msg |-> msg], expect(x, msg), 0)

FromOption ==
  \E s \in Expanded, o \in Options : Call(s, "from_option", o, NoArg, from_option(o), 0)

IntoOption ==
  \E s \in Expanded, x \in Values : Call(s, "into_option", x, NoArg, into_option(x), 0)

Cmp ==
  \E s \in Expanded, a \in Values, b \in Values :
     /\ "Ord" \in s.derives
     /\ Call(s, "cmp", a, [kind |-> "other", other |-> b], cmp(a, b), 0)

Next ==
  \/ Expand
  \/ IsSome
  \/ IsNone
  \/ Map
  \/ Unwrap
  \/ UnwrapOrDefault
  \/ UnwrapOrElse
  \/ Expect
  \/ FromOption
  \/ IntoOption
  \/ Cmp

Spec == Init /\ [][Next]_vars

\* ------------------------------------------------------------ properties

\* C1: is_some returns true exactly on the present variant, is_none exactly
\* on the absent one, and the two predicates are complements on every value.
C1_Predicates ==
  /\ op = "is_some" => out = Ret(inp.variant = "some")
  /\ op = "is_none" => out = Ret(inp.variant = "none")
  /\ op \in {"is_some", "is_none"}
       => /\ is_some(inp).kind = "return" /\ is_none(inp).kind = "return"
          /\ is_none(inp).val = ~ is_some(inp).val

C1_Witness == op = "is_none" /\ inp = none /\ out = Ret(TRUE)

\* C2: present(v) converts to Some(v) and absent to None, Some(x) converts to
\* present(x) and None to absent, and each conversion undoes the other.
C2_RoundTrip ==
  /\ op = "into_option"
       => /\ out.kind = "return"
          /\ (inp.variant = "some" => out.val = Some(inp.val))
          /\ (inp.variant = "none" => out.val = None)
          /\ from_option(out.val) = Ret(inp)
  /\ op = "from_option"
       => /\ out.kind = "return"
          /\ (inp.variant = "Some" => out.val = some(inp.val))
          /\ (inp.variant = "None" => out.val = none)
          /\ into_option(out.val) = Ret(inp)

C2_Witness == op = "from_option" /\ inp = Some(MaxPayload) /\ out = Ret(some(MaxPayload))

\* C3: map applies f exactly once to the payload of a present value and
\* never on the absent value; the variant of the result is that of the input.
C3_Map ==
  op = "map"
    => /\ out.kind = "return"
       /\ out.val.variant = inp.variant
       /\ IF inp.variant = "some"
          THEN out.val = some(Apply(arg.f, inp.val)) /\ calls = 1
          ELSE out.val = none /\ calls = 0

C3_Witness ==
  op = "map" /\ inp = some(0) /\ arg.f = "not" /\ out = Ret(some(MaxPayload)) /\ calls = 1

\* C4: unwrap returns the payload of a present value; on the absent value it
\* panics with a message that names the generated type and its absent variant.
C4_Unwrap ==
  op = "unwrap"
    => IF inp.variant = "some"
       THEN out = Ret(inp.val)
       ELSE /\ out.kind = "panic"
            /\ \E i \in 1 .. Len(out.msg) : out.msg[i] = ty.name
            /\ \E i \in 1 .. Len(out.msg) : out.msg[i] = ty.none

C4_Witness == op = "unwrap" /\ inp = none /\ out.kind = "panic" /\ ty.name = "Found"

\* C5: expect returns the payload of a present value whatever the message;
\* on the absent value it panics with exactly the caller's message.
C5_Expect ==
  op = "expect"
    => IF inp.variant = "some"
       THEN out = Ret(inp.val)
       ELSE out = Panic(arg.msg)

C5_Witness == op = "expect" /\ inp = none /\ arg.msg = <<"{}">> /\ out = Panic(<<"{}">>)

\* C6: unwrap_or_else returns the payload of a present value without calling
\* f, and the result of exactly one call of f on the absent value.
C6_UnwrapOrElse ==
  op = "unwrap_or_else"
    => IF inp.variant = "some"
       THEN out = Ret(inp.val) /\ calls = 0
       ELSE out = Ret(arg.w) /\ calls = 1

C6_Witness ==
  op = "unwrap_or_else" /\ inp = none /\ arg.w = MaxPayload /\ out = Ret(MaxPayload) /\ calls = 1

\* C7: unwrap_or_default returns the payload of a present value (also one
\* that is not the default), the payload type's default on the absent value,
\* and never panics.
C7_UnwrapOrDefault ==
  op = "unwrap_or_default"
    => /\ out.kind = "return"
       /\ out.val = IF inp.variant = "some" THEN inp.val ELSE T_default

C7_Witness ==
  op = "unwrap_or_default" /\ inp = some(MaxPayload) /\ MaxPayload # T_default /\ out = Ret(MaxPayload)

\* C8: with Ord derived, the absent value compares Less than every present
\* value, and comparing two generated values gives the result of comparing
\* their Option conversions (None < Some(v), then by payload).
C8_OrderLikeOption ==
  op = "cmp"
    => LET a == into_option(inp).val
           b == into_option(arg.other).val
           rank(o) == IF o.variant = "None" THEN 0 ELSE 1
           optcmp == IF rank(a) # rank(b) THEN Ord(rank(a), rank(b))
                     ELSE IF a.variant = "Some" THEN Ord(a.val, b.val) ELSE "Equal"
       IN /\ (inp.variant = "none" /\ arg.other.variant = "some" => out = Ret("Less"))
          /\ out = Ret(optcmp)

\* C9: a panic is reached only by unwrap or expect on the absent value; every
\* other operation, and unwrap and expect on a present value, return normally.
C9_OnlyUnwrapExpectPanic ==
  /\ out.kind = "panic" => op \in {"unwrap", "expect"} /\ inp = none
  /\ (op \notin {"unwrap", "expect"} \/ inp.variant # "none") => out.kind = "return"

C9_Witness == out.kind = "panic" /\ op = "expect" /\ inp = none

\* C10: two invocations of the macro with distinct names in one module share
\* no item name: every name in a module comes from a single invocation.
C10_Independent ==
  \A m \in Modules : \A i, j \in 1 .. Len(scope[m]) :
     scope[m][i].by # scope[m][j].by => scope[m][i].name # scope[m][j].name
====
